---------------------------- MODULE Spec2Model ----------------------------
(***************************************************************************)
(* IRModule (python/matx/ir/module.py): the module-level symbol table of   *)
(* the IR.  The Python class is a facade over a native backend reached     *)
(* through _ffi_api.  The Python methods are translated from module.py;    *)
(* the backend entry points (Module_Add, Module_AddDef, Module_Update ...) *)
(* are not part of the Python sources and are written from the design      *)
(* document (Symbol Table 4.1, Definition Store 4.2, Module 4.3, 4.4).     *)
(***************************************************************************)
EXTENDS Integers, Sequences, FiniteSets, TLC

VARIABLES mod, last

vars == <<mod, last>>

(***************************************************************************)
(* Bounds of the model.                                                    *)
(***************************************************************************)
\* number of handle objects of one kind and name that are alive at the same time
MaxId == 2

Ids == 0 .. (MaxId - 1)

\* global names used by callers, and the conventional entry name
Names == {"f", "g"}

\* the names callers give to types
TypeNames == {"f"}

EntryName == "main"

AllNames == Names \cup {EntryName}

(***************************************************************************)
(* Keys.  A key is a raw name string, a GlobalVar, a GlobalTypeVar, or     *)
(* something else.  A handle is an object: two handles are the same handle *)
(* iff they are the same object (id), whatever their names.                *)
(***************************************************************************)
StrKey(n) == [tag |-> "str", name |-> n, id |-> -1]

GlobalVar(n, i) == [tag |-> "gv", name |-> n, id |-> i]

GlobalTypeVar(n, i) == [tag |-> "gtv", name |-> n, id |-> i]

OtherKey == [tag |-> "other", name |-> "", id |-> -1]

isString(k) == k.tag = "str"

(***************************************************************************)
(* Values.  kind "func": a function (an HLOExpr that is a BaseFunc);       *)
(* "expr": an HLOExpr that is no function; "type": a Type carrying its     *)
(* constructors; "other": neither an HLOExpr nor a Type.                   *)
(***************************************************************************)
Func(b) == [kind |-> "func", body |-> b, wrapped |-> FALSE, constructors |-> <<>>]

Expr(b) == [kind |-> "expr", body |-> b, wrapped |-> FALSE, constructors |-> <<>>]

TypeVal(b, cs) == [kind |-> "type", body |-> b, wrapped |-> FALSE, constructors |-> cs]

Junk == [kind |-> "other", body |-> "junk", wrapped |-> FALSE, constructors |-> <<>>]

\* the nullary function whose body is the expression e
WrapNullary(e) == [kind |-> "func", body |-> e.body, wrapped |-> TRUE, constructors |-> <<>>]

FuncVals == {Func("body1"), Func("body2")}

ExprVals == {Expr("e1")}

TypeVals == {TypeVal("T1", <<"C1", "C2">>), TypeVal("T2", <<"C2", "C1", "C3">>)}

Values == FuncVals \cup ExprVals \cup TypeVals \cup {Junk}

isHLOExpr(v) == v.kind \in {"func", "expr"}

isType(v) == v.kind = "type"

(***************************************************************************)
(* Finite maps.                                                            *)
(***************************************************************************)
EmptyMap == [k \in {} |-> k]

Put(f, k, v) == [y \in DOMAIN f \cup {k} |-> IF y = k THEN v ELSE f[y]]

Range(f) == {f[k] : k \in DOMAIN f}

(***************************************************************************)
(* A module: the two name -> handle interning maps (gv, tv), the two       *)
(* handle -> value stores (fn, td) and the export designation (a set of at *)
(* most one function handle).                                              *)
(***************************************************************************)
EmptyModule == [gv |-> EmptyMap, fn |-> EmptyMap, tv |-> EmptyMap, td |-> EmptyMap,
                export |-> {}]

Ok(m) == [err |-> "ok", m |-> m]

Fail(e, m) == [err |-> e, m |-> m]

(***************************************************************************)
(* Symbol Table (4.1) and Definition Store (4.2).                          *)
(***************************************************************************)
\* contains(name, kind)
Contains(tab, n) == n \in DOMAIN tab

\* a table that takes the offered handle as it is
GetOrCreateOffered(tab, h) == h

\* get_or_create, for a handle offered by the caller: the handle already
\* registered under the name if there is one, else the offered handle
GetOrCreate(tab, h) == IF Contains(tab, h.name) THEN tab[h.name] ELSE h

\* bind(handle, value, update)
Bind(store, h, val, update) ==
    IF h \in DOMAIN store /\ ~update
    THEN [err |-> "DuplicateDefinition", store |-> store]
    ELSE [err |-> "ok", store |-> Put(store, h, val)]

(***************************************************************************)
(* Backend entry points used by module.py.                                 *)
(***************************************************************************)
Module_ContainGlobalVar(m, n) == Contains(m.gv, n)

\* get_existing: a set holding the handle, empty when the name is unknown
Module_GetGlobalVar(m, n) == IF Contains(m.gv, n) THEN {m.gv[n]} ELSE {}

Module_GetGlobalTypeVar(m, n) == IF Contains(m.tv, n) THEN {m.tv[n]} ELSE {}

\* add to the function namespace: the key must be a GlobalVar, the value a
\* function; a handle is re-resolved by name before it is bound
Module_Add(m, var, val, update) ==
    IF var.tag # "gv" \/ val.kind # "func" THEN Fail("TypeMismatch", m)
    ELSE LET h == GetOrCreate(m.gv, var)
             r == Bind(m.fn, h, val, update)
         IN  IF r.err # "ok" THEN Fail(r.err, m)
             ELSE Ok([m EXCEPT !.gv = Put(m.gv, h.name, h), !.fn = r.store])

\* add to the type namespace
Module_AddDef(m, var, val, update) ==
    IF var.tag # "gtv" \/ val.kind # "type" THEN Fail("TypeMismatch", m)
    ELSE LET h == GetOrCreate(m.tv, var)
             r == Bind(m.td, h, val, update)
         IN  IF r.err # "ok" THEN Fail(r.err, m)
             ELSE Ok([m EXCEPT !.tv = Put(m.tv, h.name, h), !.td = r.store])

\* lookup results: [err, ret] with ret a sequence holding the value
Found(v) == [err |-> "ok", ret |-> <<v>>]

NotFound == [err |-> "UndefinedSymbol", ret |-> <<>>]

Module_Lookup_str(m, n) ==
    IF Contains(m.gv, n) /\ m.gv[n] \in DOMAIN m.fn THEN Found(m.fn[m.gv[n]]) ELSE NotFound

Module_Lookup(m, h) == IF h \in DOMAIN m.fn THEN Found(m.fn[h]) ELSE NotFound

Module_LookupDef(m, h) == IF h \in DOMAIN m.td THEN Found(m.td[h]) ELSE NotFound

\* replay a set of <<handle, value>> bindings through the insert path, in
\* some order, stopping at the first failure
RECURSIVE AddAll(_, _, _, _)
AddAll(m, fitems, titems, update) ==
    IF fitems # {}
    THEN LET it == CHOOSE x \in fitems : TRUE
             r  == Module_Add(m, it[1], it[2], update)
         IN  IF r.err # "ok" THEN r ELSE AddAll(r.m, fitems \ {it}, titems, update)
    ELSE IF titems # {}
    THEN LET it == CHOOSE x \in titems : TRUE
             r  == Module_AddDef(m, it[1], it[2], update)
         IN  IF r.err # "ok" THEN r ELSE AddAll(r.m, fitems, titems \ {it}, update)
    ELSE Ok(m)

Bindings(store) == {<<h, store[h]>> : h \in DOMAIN store}

\* the backend constructor: bulk-load through the insert path; a name
\* collision among the supplied definitions is a DuplicateDefinition
IRModule_new(fitems, titems) == AddAll(EmptyModule, fitems, titems, FALSE)

\* merge: every function and type binding of other is added to m with
\* update = true (last writer wins); the export designation is not merged
Module_Update(m, other) == AddAll(m, Bindings(other.fn), Bindings(other.td), TRUE)

\* update_function: add(var, func, update = true) in the function namespace,
\* a raw name being resolved or created there
Module_UpdateFunction(m, var, func, fresh) ==
    Module_Add(m, IF isString(var) THEN GlobalVar(var.name, fresh) ELSE var, func, TRUE)

\* a set_export that designates the handle without looking it up
Module_AddExportFunctionUnchecked(m, h) ==
    IF h.tag # "gv" THEN Fail("TypeMismatch", m) ELSE Ok([m EXCEPT !.export = {h}])

\* set_export with a function handle: the handle is re-resolved by name and
\* must name a function bound in the module; it replaces any prior designation
Module_AddExportFunction(m, h) ==
    IF h.tag # "gv" THEN Fail("TypeMismatch", m)
    ELSE IF Contains(m.gv, h.name) /\ m.gv[h.name] \in DOMAIN m.fn
         THEN Ok([m EXCEPT !.export = {m.gv[h.name]}])
         ELSE Fail("UndefinedSymbol", m)

\* string keys of a mapping are normalized into handles at load time;
\* alloc gives the id of the handle minted for each string key
NormalizeF(items, alloc) ==
    {<<IF isString(it[1]) THEN GlobalVar(it[1].name, alloc[<<"gv", it[1].name>>]) ELSE it[1],
       it[2]>> : it \in items}

NormalizeT(items, alloc) ==
    {<<IF isString(it[1]) THEN GlobalTypeVar(it[1].name, alloc[<<"gtv", it[1].name>>]) ELSE it[1],
       it[2]>> : it \in items}

\* from_expr (4.4): a function-kind expression is used as it is, any other
\* expression is wrapped in a nullary function; the function is inserted
\* under the conventional entry name into a new module pre-seeded with the
\* caller's definitions, and designated as the export function
Module_FromExpr(expr, fitems, titems, alloc) ==
    IF ~isHLOExpr(expr) THEN Fail("TypeMismatch", EmptyModule)
    ELSE LET func == IF expr.kind = "func" THEN expr ELSE WrapNullary(expr)
             seed == IRModule_new(NormalizeF(fitems, alloc), NormalizeT(titems, alloc))
         IN  IF seed.err # "ok" THEN seed
             ELSE LET main == GlobalVar(EntryName, alloc[<<"entry", EntryName>>])
                      r    == Module_Add(seed.m, main, func, FALSE)
                  IN  IF r.err # "ok" THEN Fail(r.err, EmptyModule)
                      ELSE Module_AddExportFunction(r.m, main)

(***************************************************************************)
(* module.py: class IRModule.  A mapping argument is [none, items]: None,  *)
(* or a dict given as its set of <<key, value>> items.                     *)
(***************************************************************************)
NoneArg == [none |-> TRUE, items |-> {}]

Dict(items) == [none |-> FALSE, items |-> items]

StrKeys(items, tag) == {<<tag, it[1].name>> : it \in {x \in items : isString(x[1])}}

\* IRModule.__init__: string keys become new handles; a key that is neither
\* a string nor a handle of the namespace raises TypeError (the design's
\* TypeMismatch)
IRModule__init__(functions, type_definitions, alloc) ==
    LET fitems == IF functions.none THEN {} ELSE functions.items
        titems == IF type_definitions.none THEN {} ELSE type_definitions.items
    IN  IF \E it \in fitems : ~isString(it[1]) /\ it[1].tag # "gv"
        THEN Fail("TypeError", EmptyModule)
        ELSE IF \E it \in titems : ~isString(it[1]) /\ it[1].tag # "gtv"
        THEN Fail("TypeError", EmptyModule)
        ELSE LET r == IRModule_new(NormalizeF(fitems, alloc), NormalizeT(titems, alloc))
             IN  IF r.err # "ok" THEN Fail(r.err, EmptyModule) ELSE r

\* IRModule._add: the kind of the value selects the namespace.  A raw name
\* is resolved to the registered GlobalVar, or to a new one, on the function
\* path, and always to a new GlobalTypeVar on the type path.  A value that is
\* neither an HLOExpr nor a Type fails the assert (the design's TypeMismatch)
\* before the backend is called.
_addNoBind(m, var, val, update, fresh) ==
    IF isHLOExpr(val)
    THEN LET v == IF isString(var)
                  THEN IF Module_ContainGlobalVar(m, var.name)
                       THEN CHOOSE h \in Module_GetGlobalVar(m, var.name) : TRUE
                       ELSE GlobalVar(var.name, fresh)
                  ELSE var
         IN  Module_Add(m, v, val, update)
    ELSE IF ~isType(val) THEN Fail("AssertionError", m)
    ELSE IF isString(var)
         THEN Module_AddDef(m, GlobalTypeVar(var.name, fresh), val, update)
         ELSE Ok(m)

_addIgnoreUpdate(m, var, val, update, fresh) ==
    IF isHLOExpr(val)
    THEN LET v == IF isString(var)
                  THEN IF Module_ContainGlobalVar(m, var.name)
                       THEN CHOOSE h \in Module_GetGlobalVar(m, var.name) : TRUE
                       ELSE GlobalVar(var.name, fresh)
                  ELSE var
         IN  Module_Add(m, v, val, TRUE)
    ELSE IF ~isType(val) THEN Fail("AssertionError", m)
    ELSE LET v == IF isString(var) THEN GlobalTypeVar(var.name, fresh) ELSE var
         IN  Module_AddDef(m, v, val, TRUE)

_addOneNamespace(m, var, val, update, fresh) ==
    IF ~isHLOExpr(val) /\ ~isType(val) THEN Fail("AssertionError", m)
    ELSE LET v == IF isString(var)
                  THEN IF Module_ContainGlobalVar(m, var.name)
                       THEN CHOOSE h \in Module_GetGlobalVar(m, var.name) : TRUE
                       ELSE GlobalVar(var.name, fresh)
                  ELSE var
         IN  Module_Add(m, v, [val EXCEPT !.kind = "func"], update)

_add(m, var, val, update, fresh) ==
    IF isHLOExpr(val)
    THEN LET v == IF isString(var)
                  THEN IF Module_ContainGlobalVar(m, var.name)
                       THEN CHOOSE h \in Module_GetGlobalVar(m, var.name) : TRUE
                       ELSE GlobalVar(var.name, fresh)
                  ELSE var
         IN  Module_Add(m, v, val, update)
    ELSE IF ~isType(val) THEN Fail("AssertionError", m)
    ELSE LET v == IF isString(var) THEN GlobalTypeVar(var.name, fresh) ELSE var
         IN  Module_AddDef(m, v, val, update)

\* IRModule.__setitem__
__setitem__(m, var, val, fresh) == _add(m, var, val, TRUE, fresh)

\* IRModule.__getitem__
__getitem__Swapped(m, var) ==
    IF isString(var) THEN Module_Lookup_str(m, var.name)
    ELSE IF var.tag = "gv" THEN Module_LookupDef(m, GlobalTypeVar(var.name, var.id))
    ELSE Module_Lookup(m, GlobalVar(var.name, var.id))

__getitem__(m, var) ==
    IF isString(var) THEN Module_Lookup_str(m, var.name)
    ELSE IF var.tag = "gv" THEN Module_Lookup(m, var)
    ELSE Module_LookupDef(m, var)

\* IRModule.update: [err, m, other] with m the receiver and other the
\* argument after the call; a dict argument is first made a module
updateSwapped(m, other, isDict, alloc) ==
    IF isDict
    THEN LET o == IRModule__init__(other, NoneArg, alloc)
         IN  IF o.err # "ok" THEN [err |-> o.err, m |-> m, other |-> other]
             ELSE LET r == Module_Update(m, o.m)
                  IN  [err |-> r.err, m |-> r.m, other |-> other]
    ELSE LET r == Module_Update(other, m)
         IN  [err |-> r.err, m |-> m, other |-> r.m]

update(m, other, isDict, alloc) ==
    IF isDict
    THEN LET o == IRModule__init__(other, NoneArg, alloc)
         IN  IF o.err # "ok" THEN [err |-> o.err, m |-> m, other |-> other]
             ELSE LET r == Module_Update(m, o.m)
                  IN  [err |-> r.err, m |-> r.m, other |-> other]
    ELSE LET r == Module_Update(m, other)
         IN  [err |-> r.err, m |-> r.m, other |-> other]

\* IRModule.update_func
update_func(m, var, func, fresh) == Module_UpdateFunction(m, var, func, fresh)

\* IRModule.add_export_func
add_export_func(m, export_func) == Module_AddExportFunction(m, export_func)

\* IRModule.set_main
set_main(m, main) == add_export_func(m, main)

\* IRModule.get_global_var: [err, ret, m]
get_global_varCreate(m, name) ==
    IF Contains(m.gv, name)
    THEN [err |-> "ok", ret |-> <<m.gv[name]>>, m |-> m]
    ELSE [err |-> "ok", ret |-> <<GlobalVar(name, MaxId)>>,
          m |-> [m EXCEPT !.gv = Put(m.gv, name, GlobalVar(name, MaxId))]]

get_global_var(m, name) ==
    LET hs == Module_GetGlobalVar(m, name)
    IN  IF hs = {} THEN [err |-> "UndefinedSymbol", ret |-> <<>>, m |-> m]
        ELSE [err |-> "ok", ret |-> <<CHOOSE h \in hs : TRUE>>, m |-> m]

\* IRModule.get_global_type_var: [err, ret, m]
get_global_type_var(m, name) ==
    LET hs == Module_GetGlobalTypeVar(m, name)
    IN  IF hs = {} THEN [err |-> "UndefinedSymbol", ret |-> <<>>, m |-> m]
        ELSE [err |-> "ok", ret |-> <<CHOOSE h \in hs : TRUE>>, m |-> m]

Reverse(s) == [i \in 1 .. Len(s) |-> s[Len(s) + 1 - i]]

\* IRModule.get_type: tuple([ty_var] + list(ty_data.constructors)), ty_var
\* from get_global_type_var and ty_data = self.type_definitions[ty_var], the
\* backend's store of type bindings read by handle
get_typeReversed(m, name) ==
    LET g == get_global_type_var(m, name)
    IN  IF g.err # "ok" THEN [err |-> g.err, ret |-> <<>>]
        ELSE LET ty_var  == g.ret[1]
                 ty_data == Module_LookupDef(m, ty_var)
             IN  IF ty_data.err # "ok" THEN [err |-> ty_data.err, ret |-> <<>>]
                 ELSE [err |-> "ok", ret |-> <<ty_var>> \o Reverse(ty_data.ret[1].constructors)]

get_type(m, name) ==
    LET g == get_global_type_var(m, name)
    IN  IF g.err # "ok" THEN [err |-> g.err, ret |-> <<>>]
        ELSE LET ty_var  == g.ret[1]
                 ty_data == Module_LookupDef(m, ty_var)
             IN  IF ty_data.err # "ok" THEN [err |-> ty_data.err, ret |-> <<>>]
                 ELSE [err |-> "ok", ret |-> <<ty_var>> \o ty_data.ret[1].constructors]

\* IRModule.from_expr
from_exprNoFuncs(expr, functions, type_defs, alloc) ==
    LET defs == IF ~type_defs.none THEN type_defs.items ELSE {}
    IN  Module_FromExpr(expr, {}, defs, alloc)

from_expr(expr, functions, type_defs, alloc) ==
    LET funcs == IF ~functions.none THEN functions.items ELSE {}
        defs  == IF ~type_defs.none THEN type_defs.items ELSE {}
    IN  Module_FromExpr(expr, funcs, defs, alloc)

(***************************************************************************)
(* The state: the module under construction, and the last call made on it: *)
(* the operation, its outcome, the kind of its value (of its key, for a    *)
(* lookup), and hit: for an insertion, whether the targeted name was       *)
(* already bound in the namespace of the value and the key was a raw name  *)
(* or a handle from elsewhere; for a query by name, whether the name was   *)
(* bound as a type; for a merge, whether a name of the other module was    *)
(* bound in this one; for a construction, whether definitions were given.  *)
(***************************************************************************)
HandlesOf(m) == Range(m.gv) \cup DOMAIN m.fn \cup Range(m.tv) \cup DOMAIN m.td \cup m.export

Handle(tag, n, i) == [tag |-> tag, name |-> n, id |-> i]

\* ids a new handle of this kind and name can get: a new handle is another
\* object than every handle still held
FreeIds(tag, n, held) == {i \in Ids : Handle(tag, n, i) \notin held}

Fresh(tag, n, held) ==
    IF FreeIds(tag, n, held) = {} THEN -1
    ELSE CHOOSE i \in FreeIds(tag, n, held) : \A j \in FreeIds(tag, n, held) : i <= j

Call(op, err, kind, hit) == [op |-> op, err |-> err, kind |-> kind, hit |-> hit]

FBound(m, n) == Contains(m.gv, n) /\ m.gv[n] \in DOMAIN m.fn

TBound(m, n) == Contains(m.tv, n) /\ m.tv[n] \in DOMAIN m.td

\* is the name bound in the namespace the value's kind selects
BoundFor(m, n, val) == IF isType(val) THEN TBound(m, n) ELSE FBound(m, n)

\* an insertion under a name already bound, by a raw name or by a handle
\* that is not the module's own
Rebinds(m, key, val) == BoundFor(m, key.name, val) /\ key \notin HandlesOf(m)

\* keys a caller can pass: a raw name, a handle taken from the module, or a
\* handle the caller constructs itself
CallerHandle(tag, n, held) == Handle(tag, n, Fresh(tag, n, held))

CallerHandles ==
    {h \in {CallerHandle("gv", n, HandlesOf(mod)) : n \in Names}
              \cup {CallerHandle("gtv", n, HandlesOf(mod)) : n \in TypeNames} : h.id # -1}

KeyInputs == {StrKey(n) : n \in Names} \cup HandlesOf(mod) \cup CallerHandles

\* the <<key, value>> arguments of an insertion
AddInputs == {kv \in KeyInputs \X Values :
                 isString(kv[1]) /\ isType(kv[2]) => kv[1].name \in TypeNames}

SetItemInputs == {kv \in AddInputs : kv[2].body \in {"body2", "T2", "e1", "junk"}}

\* does _add construct a handle for this call, and the id the handle gets
Mints(m, key, val) ==
    isString(key) /\ (isType(val) \/ (isHLOExpr(val) /\ ~Module_ContainGlobalVar(m, key.name)))

PyFresh(key, val) == Fresh(IF isType(val) THEN "gtv" ELSE "gv", key.name, HandlesOf(mod))

\* mapping arguments a caller can pass; held: the handles the new handles
\* must differ from
FuncDictInputs(held) ==
    {NoneArg, Dict({}),
     Dict({<<StrKey("f"), Func("body1")>>}),
     Dict({<<StrKey("f"), Func("body2")>>, <<StrKey("g"), Func("body1")>>}),
     Dict({<<StrKey(EntryName), Func("body1")>>}),
     Dict({<<StrKey("f"), Func("body1")>>, <<CallerHandle("gv", "f", held), Func("body2")>>}),
     Dict({<<OtherKey, Func("body1")>>})}

\* the expressions and the extra functions given to from_expr
ExprInputs == {Func("body1"), Expr("e1"), Junk}

ExtraFuncInputs ==
    {NoneArg, Dict({}),
     Dict({<<StrKey("g"), Func("body2")>>}),
     Dict({<<StrKey(EntryName), Func("body1")>>}),
     Dict({<<CallerHandle("gv", EntryName, {}), Func("body2")>>})}

TypeDictInputs(held) ==
    {NoneArg,
     Dict({<<StrKey("f"), TypeVal("T2", <<"C2", "C1", "C3">>)>>}),
     Dict({<<CallerHandle("gv", "f", held), TypeVal("T1", <<"C1", "C2">>)>>})}

KeyHandles(d) == {it[1] : it \in {x \in d.items : x[1].tag \in {"gv", "gtv"}}}

Slots(fd, td) == StrKeys(fd.items, "gv") \cup StrKeys(td.items, "gtv")

EntrySlot == {<<"entry", EntryName>>}

\* the ids of the handles a call constructs: one for each string key, and
\* for from_expr one for the entry function
Alloc(fd, td, more, held) ==
    LET h1 == held \cup KeyHandles(fd) \cup KeyHandles(td)
    IN  [s \in Slots(fd, td) \cup more |->
            IF s[1] = "entry" /\ <<"gv", s[2]>> \in Slots(fd, td)
            THEN Fresh("gv", s[2], h1 \cup {Handle("gv", s[2], Fresh("gv", s[2], h1))})
            ELSE Fresh(IF s[1] = "entry" THEN "gv" ELSE s[1], s[2], h1)]

\* enough ids for the handles the caller and the call construct
CanAlloc(fd, td, more, held) ==
    /\ \A h \in KeyHandles(fd) \cup KeyHandles(td) : h.id # -1
    /\ \A s \in Slots(fd, td) \cup more : Alloc(fd, td, more, held)[s] # -1

\* other modules a caller can hold: built by the constructor
OtherInputs ==
    {o \in FuncDictInputs(HandlesOf(mod)) \X TypeDictInputs(HandlesOf(mod)) :
        /\ CanAlloc(o[1], o[2], {}, HandlesOf(mod))
        /\ IRModule__init__(o[1], o[2], Alloc(o[1], o[2], {}, HandlesOf(mod))).err = "ok"}

OtherModule(o) == IRModule__init__(o[1], o[2], Alloc(o[1], o[2], {}, HandlesOf(mod))).m

FNames(m) == {h.name : h \in DOMAIN m.fn}

TNames(m) == {h.name : h \in DOMAIN m.td}

(***************************************************************************)
(* Construction.  A module comes into being by IRModule(...) or by         *)
(* IRModule.from_expr(...); a construction that raises leaves no module.   *)
(***************************************************************************)
\* mod = IRModule(functions, type_definitions)
Construct ==
    \E fd \in FuncDictInputs({}), td \in TypeDictInputs({}) :
        /\ CanAlloc(fd, td, {}, {})
        /\ LET r == IRModule__init__(fd, td, Alloc(fd, td, {}, {}))
           IN  /\ r.err = "ok"
               /\ mod = r.m
               /\ last = Call("construct", r.err, "dict",
                              fd.items # {} \/ td.items # {})

\* mod = IRModule.from_expr(expr, functions, type_defs)
FromExpr ==
    \E e \in ExprInputs, fd \in ExtraFuncInputs,
       td \in TypeDictInputs({}) :
        /\ CanAlloc(fd, td, EntrySlot, {})
        /\ LET r == from_expr(e, fd, td, Alloc(fd, td, EntrySlot, {}))
           IN  /\ r.err = "ok"
               /\ mod = r.m
               /\ last = Call("from_expr", r.err, e.kind,
                              fd.items # {} \/ td.items # {})

Init == Construct \/ FromExpr

(***************************************************************************)
(* The operations on the module.                                           *)
(***************************************************************************)
\* mod._add(key, val, update)
Add ==
    \E kv \in AddInputs, upd \in BOOLEAN :
      LET key == kv[1]
          val == kv[2]
      IN
        /\ Mints(mod, key, val) => PyFresh(key, val) # -1
        /\ LET r == _add(mod, key, val, upd, PyFresh(key, val))
           IN  /\ mod' = r.m
               /\ last' = Call("add", r.err, val.kind, Rebinds(mod, key, val))

\* mod[key] = val
SetItem ==
    \E kv \in SetItemInputs :
      LET key == kv[1]
          val == kv[2]
      IN
        /\ Mints(mod, key, val) => PyFresh(key, val) # -1
        /\ LET r == __setitem__(mod, key, val, PyFresh(key, val))
           IN  /\ mod' = r.m
               /\ last' = Call("setitem", r.err, val.kind, Rebinds(mod, key, val))

\* mod[key]
GetItem ==
    \E key \in KeyInputs :
        LET r == __getitem__(mod, key)
        IN  /\ mod' = mod
            /\ last' = Call("lookup", r.err, key.tag, TBound(mod, key.name))

\* mod.update(other), other a module (another one, or mod itself)
UpdateModule ==
    \/ \E o \in OtherInputs :
          LET other == OtherModule(o)
              r     == update(mod, other, FALSE, EmptyMap)
          IN  /\ mod' = r.m
              /\ last' = Call("update", r.err, "module",
                              FNames(other) \cap FNames(mod) # {})
    \/ LET r == update(mod, mod, FALSE, EmptyMap)
       IN  /\ mod' = r.m
           /\ last' = Call("update", r.err, "self", FNames(mod) # {})

\* mod.update(other), other a dict
UpdateDict ==
    \E fd \in FuncDictInputs(HandlesOf(mod)) \ {NoneArg} :
        /\ CanAlloc(fd, NoneArg, {}, HandlesOf(mod))
        /\ LET r == update(mod, fd, TRUE, Alloc(fd, NoneArg, {}, HandlesOf(mod)))
           IN  /\ mod' = r.m
               /\ last' = Call("update", r.err, "dict",
                               {it[1].name : it \in fd.items} \cap FNames(mod) # {})

\* mod.update_func(var, func)
UpdateFunc ==
    \E key \in {k \in KeyInputs : k.tag \in {"str", "gv"}}, val \in FuncVals :
        /\ isString(key) => PyFresh(key, val) # -1
        /\ LET r == update_func(mod, key, val, PyFresh(key, val))
           IN  /\ mod' = r.m
               /\ last' = Call("update_func", r.err, val.kind,
                               FBound(mod, key.name))

\* mod.add_export_func(h)
AddExportFunc ==
    \E h \in {k \in KeyInputs : k.tag = "gv"} :
        LET r == add_export_func(mod, h)
        IN  /\ mod' = r.m
            /\ last' = Call("add_export_func", r.err, "", FBound(mod, h.name))

\* mod.set_main(h)
SetMain ==
    \E h \in {k \in KeyInputs : k.tag = "gv"} :
        LET r == set_main(mod, h)
        IN  /\ mod' = r.m
            /\ last' = Call("set_main", r.err, "", FBound(mod, h.name))

\* mod.get_global_var(name)
GetGlobalVar ==
    \E n \in AllNames :
        LET r == get_global_var(mod, n)
        IN  /\ mod' = r.m
            /\ last' = Call("get_global_var", r.err, "", TBound(mod, n))

\* mod.get_global_type_var(name)
GetGlobalTypeVar ==
    \E n \in AllNames :
        LET r == get_global_type_var(mod, n)
        IN  /\ mod' = r.m
            /\ last' = Call("get_global_type_var", r.err, "", TBound(mod, n))

\* mod.get_type(name)
GetType ==
    \E n \in AllNames :
        LET r == get_type(mod, n)
        IN  /\ mod' = mod
            /\ last' = Call("get_type", r.err, "", TBound(mod, n))

Next ==
    \/ Add
    \/ SetItem
    \/ GetItem
    \/ UpdateModule
    \/ UpdateDict
    \/ UpdateFunc
    \/ AddExportFunc
    \/ SetMain
    \/ GetGlobalVar
    \/ GetGlobalTypeVar
    \/ GetType

Spec == Init /\ [][Next]_vars

(***************************************************************************)
(* Properties.                                                             *)
(***************************************************************************)
FnOf(m, n) == m.fn[m.gv[n]]

TdOf(m, n) == m.td[m.tv[n]]

\* a key and a value of the same namespace
WellKinded(key, val) ==
    \/ val.kind = "func" /\ key.tag \in {"str", "gv"}
    \/ val.kind = "type" /\ key.tag \in {"str", "gtv"}

\* the id of the handle _add constructs when called on m with this key
FreshFor(m, key, val) ==
    Fresh(IF isType(val) THEN "gtv" ELSE "gv", key.name, HandlesOf(m) \cup {key})

\* the calls of _add the caller can make on m
Addable(m, key, val) == Mints(m, key, val) => FreshFor(m, key, val) # -1

\* the handle of a name in the namespace of the value, as the strict lookups
\* return it
HandleFor(m, n, val) ==
    IF isType(val) THEN get_global_type_var(m, n).ret ELSE get_global_var(m, n).ret

ValueFor(m, n, val) == IF isType(val) THEN TdOf(m, n) ELSE FnOf(m, n)

\* one handle per name in a namespace: the interning map tab and the store
UniqueHandles(tab, store, tag) ==
    /\ \A n \in DOMAIN tab : tab[n].name = n /\ tab[n].tag = tag
    /\ \A n1, n2 \in DOMAIN tab : n1 # n2 => tab[n1] # tab[n2]
    /\ \A h \in DOMAIN store : Contains(tab, h.name) /\ tab[h.name] = h
    /\ \A h1, h2 \in DOMAIN store : h1.name = h2.name => h1 = h2

\* the handle of a registered name stays the same handle as long as the
\* module lives
HandlesStable ==
    /\ \A n \in DOMAIN mod.gv : Contains(mod'.gv, n) /\ mod'.gv[n] = mod.gv[n]
    /\ \A n \in DOMAIN mod.tv : Contains(mod'.tv, n) /\ mod'.tv[n] = mod.tv[n]

\* C1 (uniquing): in every reachable state each namespace holds at most one
\* handle per name: the bound handles have pairwise different names, each is
\* the handle its name is registered to, two names never share a handle, and
\* a registered name keeps its handle through every operation on the module.
C1_Uniquing ==
    /\ [](UniqueHandles(mod.gv, mod.fn, "gv") /\ UniqueHandles(mod.tv, mod.td, "gtv"))
    /\ [][HandlesStable]_vars

\* a type was added again under its name: _add made a new GlobalTypeVar
C1_Witness == last.op = "add" /\ last.err = "ok" /\ last.kind = "type" /\ last.hit

\* the second add under a bound name, without and with update
SecondAdd(m, key, val2) ==
    LET n  == key.name
        r0 == _add(m, key, val2, FALSE, FreshFor(m, key, val2))
        r1 == _add(m, key, val2, TRUE, FreshFor(m, key, val2))
    IN  /\ r0.err = "DuplicateDefinition" /\ r0.m = m
        /\ r1.err = "ok"
        /\ BoundFor(r1.m, n, val2) /\ ValueFor(r1.m, n, val2) = val2
        /\ HandleFor(r1.m, n, val2) = HandleFor(m, n, val2)
        /\ HandleFor(m, n, val2) # <<>>

\* C2 (insert/update contract): an add under a fresh name with update = false
\* succeeds and binds the value; a second add under the name with
\* update = false fails with DuplicateDefinition and changes nothing; with
\* update = true it succeeds and replaces the value, and the strict lookup of
\* the name returns the same handle before and after.
C2_InsertUpdate ==
    \A kv \in AddInputs, val2 \in FuncVals \cup TypeVals :
        LET key == kv[1]
            val == kv[2]
        IN  (WellKinded(key, val) /\ val2.kind = val.kind /\ Addable(mod, key, val)) =>
                IF BoundFor(mod, key.name, val)
                THEN SecondAdd(mod, key, val2)
                ELSE LET a == _add(mod, key, val, FALSE, FreshFor(mod, key, val))
                     IN  /\ a.err = "ok"
                         /\ BoundFor(a.m, key.name, val) /\ ValueFor(a.m, key.name, val) = val
                         /\ Addable(a.m, key, val2) => SecondAdd(a.m, key, val2)

\* a function was added again under its name and replaced the bound one
C2_Witness == last.op = "add" /\ last.err = "ok" /\ last.kind = "func" /\ last.hit

\* r is the outcome of m.update(other)
MergedInto(m, other, r) ==
    /\ r.err = "ok"
    /\ \A h \in DOMAIN other.fn : FBound(r.m, h.name) /\ FnOf(r.m, h.name) = other.fn[h]
    /\ \A h \in DOMAIN other.td : TBound(r.m, h.name) /\ TdOf(r.m, h.name) = other.td[h]
    /\ \A h \in DOMAIN m.fn :
          h.name \notin FNames(other) => FBound(r.m, h.name) /\ FnOf(r.m, h.name) = m.fn[h]
    /\ \A h \in DOMAIN m.td :
          h.name \notin TNames(other) => TBound(r.m, h.name) /\ TdOf(r.m, h.name) = m.td[h]
    /\ FNames(r.m) = FNames(m) \cup FNames(other)
    /\ TNames(r.m) = TNames(m) \cup TNames(other)
    /\ r.other = other

\* C3 (merge, last writer wins): after mod.update(other) every function and
\* type binding of other is in mod with other's value, every binding of mod
\* whose name other does not define is unchanged, no name appears from
\* nowhere, the merge does not fail, and other is unchanged.
C3_Merge ==
    /\ \A o \in OtherInputs :
          MergedInto(mod, OtherModule(o), update(mod, OtherModule(o), FALSE, EmptyMap))
    /\ MergedInto(mod, mod, update(mod, mod, FALSE, EmptyMap))

\* another module that defines a function mod defines too was merged into mod
C3_Witness ==
    last.op = "update" /\ last.kind = "module" /\ last.err = "ok" /\ last.hit

\* the strict lookups of an unregistered name, and their effect on the module
StrictLookupFails ==
    \A n \in AllNames :
        /\ ~Contains(mod.gv, n) =>
              LET r == get_global_var(mod, n)
              IN  r.err = "UndefinedSymbol" /\ r.m = mod
                    /\ get_global_var(r.m, n).err = "UndefinedSymbol"
        /\ ~Contains(mod.tv, n) =>
              LET r == get_global_type_var(mod, n)
              IN  r.err = "UndefinedSymbol" /\ r.m = mod
                    /\ get_global_type_var(r.m, n).err = "UndefinedSymbol"

StrictLookupReads ==
    last'.op \in {"get_global_var", "get_global_type_var"} => mod' = mod

\* C4 (strict lookups do not create): get_global_var and get_global_type_var
\* of a name not registered in their namespace fail with UndefinedSymbol, and
\* neither call ever changes the module.
C4_StrictLookup == []StrictLookupFails /\ [][StrictLookupReads]_vars

\* get_global_var failed for a name that is registered, but as a type
C4_Witness ==
    last.op = "get_global_var" /\ last.err = "UndefinedSymbol" /\ last.hit

\* C5 (namespace separation): an add of a function never fails because of,
\* and never touches, a type of the same name, and the other way round; a
\* function and a type bound to one name are both found, each by its lookup.
C5_Namespaces ==
    /\ \A kv \in AddInputs, upd \in BOOLEAN :
          LET key == kv[1]
              val == kv[2]
              r   == _add(mod, key, val, upd, FreshFor(mod, key, val))
          IN  (WellKinded(key, val) /\ Addable(mod, key, val)) =>
                  /\ ~BoundFor(mod, key.name, val) => r.err = "ok"
                  /\ val.kind = "func" => r.m.tv = mod.tv /\ r.m.td = mod.td
                  /\ val.kind = "type" => r.m.gv = mod.gv /\ r.m.fn = mod.fn
                  /\ r.err = "ok" =>
                        /\ BoundFor(r.m, key.name, val)
                        /\ ValueFor(r.m, key.name, val) = val
    /\ \A n \in AllNames :
          /\ FBound(mod, n) => __getitem__(mod, StrKey(n)) = Found(FnOf(mod, n))
          /\ TBound(mod, n) => get_global_type_var(mod, n).ret = <<mod.tv[n]>>
          /\ ~TBound(mod, n) => get_global_type_var(mod, n).err = "UndefinedSymbol"

\* a function was looked up by a name that is also the name of a type
C5_Witness == last.op = "lookup" /\ last.kind = "str" /\ last.err = "ok" /\ last.hit

\* the outcome of one call of _add, and the effect of a failed call
AllOrNothing ==
    \A kv \in AddInputs, upd \in BOOLEAN :
        LET key == kv[1]
            val == kv[2]
            r   == _add(mod, key, val, upd, FreshFor(mod, key, val))
        IN  Addable(mod, key, val) =>
                \/ r.err = "ok" /\ BoundFor(r.m, key.name, val)
                      /\ ValueFor(r.m, key.name, val) = val
                \/ r.err # "ok" /\ r.m = mod

FailedAddKeeps == (last'.op \in {"add", "setitem"} /\ last'.err # "ok") => mod' = mod

\* C6 (atomic add): a call of _add or __setitem__ either succeeds, and then
\* the targeted name is bound to the value, or fails, and then the module is
\* as it was before the call.
C6_AtomicAdd == []AllOrNothing /\ [][FailedAddKeeps]_vars

\* an add was refused because its value is neither a function nor a type
C6_Witness == last.op = "add" /\ last.err = "AssertionError" /\ last.kind = "other"

EntryOnly(m, e) ==
    /\ FNames(m) = {EntryName} /\ Cardinality(DOMAIN m.fn) = 1
    /\ FBound(m, EntryName)
    /\ FnOf(m, EntryName) = (IF e.kind = "func" THEN e ELSE WrapNullary(e))
    /\ e.kind = "expr" => FnOf(m, EntryName).wrapped /\ FnOf(m, EntryName).kind = "func"
    /\ m.td = EmptyMap /\ m.tv = EmptyMap
    /\ m.export = {m.gv[EntryName]}
    /\ Module_Lookup(m, CHOOSE h \in m.export : TRUE) = Found(FnOf(m, EntryName))

UsesEntryName(fd) == \E it \in fd.items : it[1].name = EntryName

WellKeyed(td) == \A it \in td.items : it[1].tag \in {"str", "gtv"}

\* C8 (from_expr): from_expr(e) without extra functions and types gives a
\* module whose only function binding is the entry name, bound to e if e is a
\* function and else to the nullary function wrapping e, with no type
\* binding and with that function as the export designation; when a function
\* the caller supplies has the entry name, it fails with DuplicateDefinition.
C8_FromExpr ==
    /\ (last.op = "from_expr" /\ last.err = "ok" /\ ~last.hit) =>
           EntryOnly(mod, CHOOSE e \in ExprInputs : e.kind = last.kind)
    /\ \A e \in {x \in ExprInputs : isHLOExpr(x)}, fd \in ExtraFuncInputs,
          td \in {x \in TypeDictInputs({}) : WellKeyed(x)} :
          CanAlloc(fd, td, EntrySlot, {}) =>
              LET r == from_expr(e, fd, td, Alloc(fd, td, EntrySlot, {}))
              IN  /\ (fd.items = {} /\ td.items = {}) => r.err = "ok" /\ EntryOnly(r.m, e)
                  /\ UsesEntryName(fd) => r.err = "DuplicateDefinition"

\* from_expr wrapped an expression that is no function, with no extras
C8_Witness ==
    last.op = "from_expr" /\ last.err = "ok" /\ last.kind = "expr" /\ ~last.hit
        /\ FBound(mod, EntryName)

\* t is the outcome of get_type(n) on m, cs the constructors of the type
TypeTuple(m, n, cs, t) ==
    /\ t.err = "ok"
    /\ Len(t.ret) = 1 + Len(cs)
    /\ t.ret[1] = get_global_type_var(m, n).ret[1]
    /\ \A i \in 1 .. Len(cs) : t.ret[i + 1] = cs[i]

\* C9 (get_type): get_type of a name registered as a type returns the handle
\* get_global_type_var returns for the name, followed by the constructors of
\* the bound type in their order; of any other name it fails with
\* UndefinedSymbol.
C9_GetType ==
    /\ \A n \in AllNames :
          IF Contains(mod.tv, n)
          THEN TypeTuple(mod, n, TdOf(mod, n).constructors, get_type(mod, n))
          ELSE get_type(mod, n).err = "UndefinedSymbol"
    /\ \A n \in TypeNames, ty \in TypeVals :
          Addable(mod, StrKey(n), ty) =>
              LET a == _add(mod, StrKey(n), ty, TRUE, FreshFor(mod, StrKey(n), ty))
              IN  a.err = "ok" /\ TypeTuple(a.m, n, ty.constructors, get_type(a.m, n))

\* get_type was called for the name of a registered type
C9_Witness == last.op = "get_type" /\ last.err = "ok" /\ last.hit /\ mod.td # EmptyMap

\* the result of a lookup by each key, and its effect on the module
LookupResult ==
    \A key \in KeyInputs \cup {StrKey(EntryName)} :
        LET r == __getitem__(mod, key)
        IN  /\ key.tag = "str" =>
                  r = IF FBound(mod, key.name) THEN Found(FnOf(mod, key.name)) ELSE NotFound
            /\ key.tag = "gv" =>
                  r = IF key \in DOMAIN mod.fn THEN Found(mod.fn[key]) ELSE NotFound
            /\ key.tag = "gtv" =>
                  r = IF key \in DOMAIN mod.td THEN Found(mod.td[key]) ELSE NotFound

LookupReads == last'.op = "lookup" => mod' = mod

\* C10 (lookup dispatch): a string key is resolved in the function namespace
\* only, a GlobalVar key gives the function binding, any other key (a
\* GlobalTypeVar) the type binding; an unbound key fails with UndefinedSymbol
\* on each path, and a lookup never changes the module.
C10_LookupDispatch == []LookupResult /\ [][LookupReads]_vars

\* a lookup by a string that names a type, and no function, failed
C10_Witness ==
    last.op = "lookup" /\ last.kind = "str" /\ last.err = "UndefinedSymbol" /\ last.hit

=============================================================================
